---- MODULE Spec2Model ----
(***************************************************************************)
(* diff-numerics: line-oriented comparison of two files of whitespace-     *)
(* delimited numeric tables (NumericDiff::run, NumericDiff::compare_lines, *)
(* NumericDiff::percentage_difference, TextParser, Formatter, Printer).    *)
(*                                                                         *)
(* Representation.                                                         *)
(*  - A std::string is a sequence of one-character strings; the escape     *)
(*    character \033 is the element "ESC".                                 *)
(*  - A double read from a token is an exact decimal [m |-> mantissa,      *)
(*    e |-> power of ten]; a percentage is an exact fraction [n, d].       *)
(*    The sentinel 1.0E99 is the fraction 1/0: it compares greater than    *)
(*    every finite percentage of the model.  Tokens "inf"/"nan", a zero    *)
(*    threshold and values whose quotient rounds in binary floating point  *)
(*    are outside the input sets below.                                    *)
(*  - An input file is the sequence of lines std::getline returns.         *)
(***************************************************************************)
EXTENDS Integers, Sequences, FiniteSets, TLC

VARIABLES
    options,            \* NumericDiff::options_
    m_comment_prefix,   \* TextParser::m_comment_prefix (static)
    file1, file2,       \* contents of options_.file1 / options_.file2
    pos1, pos2,         \* lines already consumed from fs1 / fs2
    file1_has_line, file2_has_line,
    result,             \* NumericDiffResult of run()
    pc,                 \* position in run(): reading, drain1, drain2, done, fatal
    error,              \* what() of the exception that left run(), "" if none
    out,                \* lines written to the output stream so far
    calls,              \* log of the compare_lines calls made so far
    arg,                \* arguments of a Formatter function called on its own
    ret,                \* what that call returned
    summary,            \* lines main() wrote to the output after run()
    exit_code           \* <<value main() returned>>, <<>> while it runs

vars == <<options, m_comment_prefix, file1, file2, pos1, pos2, file1_has_line,
          file2_has_line, result, pc, error, out, calls, arg, ret, summary,
          exit_code>>

-----------------------------------------------------------------------------
(* Small helpers *)

Min(a, b) == IF a < b THEN a ELSE b

Max(a, b) == IF a > b THEN a ELSE b

Abs(x) == IF x < 0 THEN -x ELSE x

RECURSIVE GCD(_, _)
GCD(a, b) == IF b = 0 THEN a ELSE GCD(b, a % b)

Spaces(k) == [i \in 1..k |-> " "]

\* F applied to the value of v, which is computed once
Bind(v, F(_)) == CHOOSE r \in {F(x) : x \in {v}} : TRUE

RECURSIVE Join(_)
\* the join lambda of compare_lines: elements separated by single spaces
Join(v) ==
    IF v = <<>> THEN <<>>
    ELSE IF Len(v) = 1 THEN v[1]
    ELSE v[1] \o <<" ">> \o Join(Tail(v))

\* std::string::find(needle) != npos
Contains(str, needle) ==
    \E i \in 1..(Len(str) - Len(needle) + 1) :
        SubSeq(str, i, i + Len(needle) - 1) = needle

\* std::string::rfind(needle): 1-based index of the last occurrence, 0 for npos
RFind(str, needle) ==
    LET hits == {i \in 1..(Len(str) - Len(needle) + 1) :
                    SubSeq(str, i, i + Len(needle) - 1) = needle}
    IN IF hits = {} THEN 0 ELSE CHOOSE i \in hits : \A j \in hits : j <= i

-----------------------------------------------------------------------------
(* TextParser *)

Whitespace == {" ", "\t"}

RECURSIVE tokenize_from(_, _, _, _)
tokenize_from(line, i, cur, acc) ==
    IF i > Len(line)
    THEN IF cur = <<>> THEN acc ELSE Append(acc, cur)
    ELSE IF line[i] \in Whitespace
         THEN tokenize_from(line, i + 1, <<>>,
                            IF cur = <<>> THEN acc ELSE Append(acc, cur))
         ELSE tokenize_from(line, i + 1, Append(cur, line[i]), acc)

\* while (iss >> token) tokens.push_back(token)
tokenize(line) == tokenize_from(line, 1, <<>>, <<>>)

\* line.find_first_not_of(" \t"): 1-based, 0 for npos
FirstNotBlank(line) ==
    LET idx == {i \in 1..Len(line) : line[i] \notin {" ", "\t"}}
    IN IF idx = {} THEN 0 ELSE CHOOSE i \in idx : \A j \in idx : i <= j

\* line.compare(pos, prefix.size(), prefix) == 0 after the leading blanks
line_is_comment(line, prefix) ==
    LET p == FirstNotBlank(line)
    IN IF p = 0 THEN FALSE
       ELSE SubSeq(line, p, Min(Len(line), p + Len(prefix) - 1)) = prefix

Digits == {"0", "1", "2", "3", "4", "5", "6", "7", "8", "9"}

DigitVal(c) ==
    CASE c = "0" -> 0 [] c = "1" -> 1 [] c = "2" -> 2 [] c = "3" -> 3
      [] c = "4" -> 4 [] c = "5" -> 5 [] c = "6" -> 6 [] c = "7" -> 7
      [] c = "8" -> 8 [] c = "9" -> 9

RECURSIVE ScanDigits(_, _, _, _)
\* consume a run of digits of s from index i; val accumulates, cnt counts them
ScanDigits(s, i, val, cnt) ==
    IF i <= Len(s) /\ s[i] \in Digits
    THEN ScanDigits(s, i + 1, val * 10 + DigitVal(s[i]), cnt + 1)
    ELSE [i |-> i, val |-> val, cnt |-> cnt]

RECURSIVE Normalize(_)
\* the same real number with no trailing zero in the mantissa
Normalize(v) ==
    IF v.m = 0 THEN [m |-> 0, e |-> 0]
    ELSE IF v.m % 10 = 0 THEN Normalize([m |-> v.m \div 10, e |-> v.e + 1])
    ELSE v

\* std::from_chars(first, last, double): [-]digits[.digits][(e|E)[+|-]digits].
\* ptr is the 1-based index where parsing stopped.
from_chars(s) ==
    LET neg    == Len(s) >= 1 /\ s[1] = "-"
        ip     == ScanDigits(s, IF neg THEN 2 ELSE 1, 0, 0)
        hasDot == ip.i <= Len(s) /\ s[ip.i] = "."
        fp     == IF hasDot THEN ScanDigits(s, ip.i + 1, ip.val, 0)
                  ELSE [i |-> ip.i, val |-> ip.val, cnt |-> 0]
        mantOk == ip.cnt + fp.cnt >= 1
        j      == fp.i
        hasE   == j <= Len(s) /\ s[j] \in {"e", "E"}
        sgn    == hasE /\ j + 1 <= Len(s) /\ s[j + 1] \in {"+", "-"}
        ep     == ScanDigits(s, IF sgn THEN j + 2 ELSE j + 1, 0, 0)
        expOk  == hasE /\ ep.cnt >= 1
        expVal == IF ~expOk THEN 0
                  ELSE IF sgn /\ s[j + 1] = "-" THEN -ep.val ELSE ep.val
    IN [ok    |-> mantOk,
        ptr   |-> IF ~mantOk THEN 1 ELSE IF expOk THEN ep.i ELSE j,
        value |-> Normalize([m |-> IF neg THEN -fp.val ELSE fp.val,
                             e |-> expVal - fp.cnt])]

\* result.ec == std::errc() && result.ptr == str.c_str() + str.size()
string_is_numeric(str) ==
    LET r == from_chars(str) IN r.ok /\ r.ptr = Len(str) + 1

\* std::stod on a token that string_is_numeric accepted
stod(str) == from_chars(str).value

-----------------------------------------------------------------------------
(* Exact arithmetic standing for double *)

\* mantissa of decimal v at the (not larger) exponent e
AlignM(v, e) == v.m * (10 ^ (v.e - e))

DecAbs(v) == [m |-> Abs(v.m), e |-> v.e]

RECURSIVE NumDigits(_)
NumDigits(k) == IF k < 10 THEN 1 ELSE 1 + NumDigits(k \div 10)

\* a < b for decimals a, b >= 0: by order of magnitude, then by mantissa
DecLess(a, b) ==
    IF a.m = 0 THEN b.m > 0
    ELSE IF b.m = 0 THEN FALSE
    ELSE IF NumDigits(a.m) + a.e # NumDigits(b.m) + b.e
         THEN NumDigits(a.m) + a.e < NumDigits(b.m) + b.e
         ELSE LET e == Min(a.e, b.e) IN AlignM(a, e) < AlignM(b, e)

\* the fraction n/d in lowest terms (d > 0)
Rat(n, d) == LET g == GCD(n, d) IN [n |-> n \div g, d |-> d \div g]

PctZero == [n |-> 0, d |-> 1]

PctLess(a, b) == a.n * b.d < b.n * a.d

PctEq(a, b) == a.n * b.d = b.n * a.d

PctAbs(p) == [n |-> Abs(p.n), d |-> p.d]

\* static constexpr double big = 1.0E99
big == [n |-> 1, d |-> 0]

RECURSIVE IntToChars(_)
IntToChars(k) ==
    LET c == <<"0", "1", "2", "3", "4", "5", "6", "7", "8", "9">>
    IN IF k < 10 THEN <<c[k + 1]>> ELSE IntToChars(k \div 10) \o <<c[(k % 10) + 1]>>

RECURSIVE Exp10(_, _)
\* floor(log10(n/d)) for n, d > 0
Exp10(n, d) ==
    IF n >= 10 * d THEN 1 + Exp10(n, 10 * d)
    ELSE IF n < d THEN Exp10(10 * n, d) - 1
    ELSE 0

RECURSIVE LongDiv(_, _, _, _)
\* k more decimal digits of the quotient q rem r by d
LongDiv(q, r, d, k) ==
    IF k = 0 THEN [q |-> q, r |-> r]
    ELSE LongDiv(q * 10 + ((r * 10) \div d), (r * 10) % d, d, k - 1)

RECURSIVE StripZeros(_, _)
StripZeros(s, dec) ==
    IF dec > 0 /\ s % 10 = 0 THEN StripZeros(s \div 10, dec - 1)
    ELSE [s |-> s, dec |-> dec]

RECURSIVE ZeroPad(_, _)
ZeroPad(str, w) == IF Len(str) < w THEN ZeroPad(<<"0">> \o str, w) ELSE str

\* operator<<(double) of a default-formatted stream (%g, precision 6), for the
\* sentinel, zero and the fixed-notation range 1e-4 <= p < 1e6
FormatDouble(p) ==
    IF p.d = 0 THEN <<"1", "e", "+", "9", "9">>
    ELSE IF p.n = 0 THEN <<"0">>
    ELSE LET x   == Exp10(p.n, p.d)
             dec == 5 - x
             ld  == LongDiv(p.n \div p.d, p.n % p.d, p.d, dec)
             s   == IF 2 * ld.r >= p.d THEN ld.q + 1 ELSE ld.q
             z   == StripZeros(s, dec)
             ip  == z.s \div (10 ^ z.dec)
             fr  == z.s % (10 ^ z.dec)
         IN IF z.dec = 0 THEN IntToChars(ip)
            ELSE IntToChars(ip) \o <<".">> \o ZeroPad(IntToChars(fr), z.dec)

\* oss << std::setw(w) << std::setfill(' ') << std::right << diff << "%"
FormatError(diff, w) ==
    LET txt == FormatDouble(diff)
    IN Spaces(Max(0, w - Len(txt))) \o txt \o <<"%">>

-----------------------------------------------------------------------------
(* NumericDiff::percentage_difference *)

\* percentage_difference returning 0 also when the relative difference
\* equals the tolerance (<= for <)
percentage_difference_le(value1, value2) ==
    LET thr    == options.threshold
        small1 == DecLess(DecAbs(value1), thr)
        small2 == DecLess(DecAbs(value2), thr)
    IN IF small1 /\ small2 THEN PctZero
       ELSE IF (small1 /\ ~small2) \/ (small2 /\ ~small1) THEN big
       ELSE LET e  == Min(value1.e, value2.e)
                a  == AlignM(value1, e)
                b  == AlignM(value2, e)
                q  == Rat(Abs(a - b), Max(Abs(a), Abs(b)))
                percentage_diff == Rat(q.n * 100, q.d)
            IN IF ~PctLess(options.tolerance, percentage_diff) THEN PctZero
               ELSE percentage_diff

\* percentage_difference relative to |value1| instead of the larger magnitude
percentage_difference_first(value1, value2) ==
    LET thr    == options.threshold
        small1 == DecLess(DecAbs(value1), thr)
        small2 == DecLess(DecAbs(value2), thr)
    IN IF small1 /\ small2 THEN PctZero
       ELSE IF (small1 /\ ~small2) \/ (small2 /\ ~small1) THEN big
       ELSE LET e  == Min(value1.e, value2.e)
                a  == AlignM(value1, e)
                b  == AlignM(value2, e)
                q  == Rat(Abs(a - b), Abs(a))
                percentage_diff == Rat(q.n * 100, q.d)
            IN IF PctLess(percentage_diff, options.tolerance) THEN PctZero
               ELSE percentage_diff

percentage_difference(value1, value2) ==
    LET thr    == options.threshold
        small1 == DecLess(DecAbs(value1), thr)
        small2 == DecLess(DecAbs(value2), thr)
    IN IF small1 /\ small2 THEN PctZero
       ELSE IF (small1 /\ ~small2) \/ (small2 /\ ~small1) THEN big
       ELSE LET e  == Min(value1.e, value2.e)
                a  == AlignM(value1, e)
                b  == AlignM(value2, e)
                q  == Rat(Abs(a - b), Max(Abs(a), Abs(b)))
                percentage_diff == Rat(q.n * 100, q.d)
            IN IF PctLess(percentage_diff, options.tolerance) THEN PctZero
               ELSE percentage_diff

-----------------------------------------------------------------------------
(* Formatter *)

RED == <<"ESC", "[", "3", "1", "m">>

RESET == <<"ESC", "[", "0", "m">>

calculate_col_widths(t1, t2) ==
    [i \in 1..Min(Len(t1), Len(t2)) |-> Max(Len(t1[i]), Len(t2[i]))]

RECURSIVE strip_ansi_from(_, _, _, _)
strip_ansi_from(input, i, in_escape, res) ==
    IF i > Len(input) THEN res
    ELSE IF ~in_escape
         THEN IF input[i] = "ESC" /\ i + 1 <= Len(input) /\ input[i + 1] = "["
              THEN strip_ansi_from(input, i + 1, TRUE, res)
              ELSE strip_ansi_from(input, i + 1, FALSE, Append(res, input[i]))
         ELSE strip_ansi_from(input, i + 1, input[i] # "m", res)

strip_ansi(input) == strip_ansi_from(input, 1, FALSE, <<>>)

ensure_ansi_reset(str) ==
    LET last_red   == RFind(str, RED)
        last_reset == RFind(str, RESET)
    IN IF last_red # 0 /\ (last_reset = 0 \/ last_reset < last_red)
       THEN str \o RESET
       ELSE str

RECURSIVE extract_from_le(_, _, _, _, _, _)
\* the loop copying one visible character more (<= for <)
extract_from_le(input, n, i, visible_count, in_escape, res) ==
    IF i > Len(input) THEN res
    ELSE IF ~in_escape
         THEN IF input[i] = "ESC" /\ i + 1 <= Len(input) /\ input[i + 1] = "["
              THEN extract_from_le(input, n, i + 1, visible_count, TRUE,
                                   Append(res, input[i]))
              ELSE IF visible_count <= n
                   THEN extract_from_le(input, n, i + 1, visible_count + 1,
                                        FALSE, Append(res, input[i]))
                   ELSE res
         ELSE extract_from_le(input, n, i + 1, visible_count, input[i] # "m",
                              Append(res, input[i]))

RECURSIVE extract_from_cut(_, _, _, _, _, _)
\* the loop stopping inside an escape sequence once n characters are copied
extract_from_cut(input, n, i, visible_count, in_escape, res) ==
    IF i > Len(input) THEN res
    ELSE IF ~in_escape
         THEN IF input[i] = "ESC" /\ i + 1 <= Len(input) /\ input[i + 1] = "["
              THEN extract_from_cut(input, n, i + 1, visible_count, TRUE,
                                    Append(res, input[i]))
              ELSE IF visible_count < n
                   THEN extract_from_cut(input, n, i + 1, visible_count + 1,
                                         FALSE, Append(res, input[i]))
                   ELSE res
         ELSE IF visible_count >= n THEN res
         ELSE extract_from_cut(input, n, i + 1, visible_count, input[i] # "m",
                               Append(res, input[i]))

RECURSIVE extract_from(_, _, _, _, _, _)
extract_from(input, n, i, visible_count, in_escape, res) ==
    IF i > Len(input) THEN res
    ELSE IF ~in_escape
         THEN IF input[i] = "ESC" /\ i + 1 <= Len(input) /\ input[i + 1] = "["
              THEN extract_from(input, n, i + 1, visible_count, TRUE,
                                Append(res, input[i]))
              ELSE IF visible_count < n
                   THEN extract_from(input, n, i + 1, visible_count + 1, FALSE,
                                     Append(res, input[i]))
                   ELSE res
         ELSE extract_from(input, n, i + 1, visible_count, input[i] # "m",
                           Append(res, input[i]))

extract_visible_prefix(input, n) ==
    ensure_ansi_reset(extract_from(input, n, 1, 0, FALSE, <<>>))

make_red(str) == RED \o str \o RESET

string_is_red(str) == Contains(str, RED)

\* the split_exp lambda: <<mantissa, exponent>> at the first 'e' or 'E'
split_exp(s) ==
    LET idx == {i \in 1..Len(s) : s[i] \in {"e", "E"}}
    IN IF idx = {} THEN <<s, <<>>>>
       ELSE LET epos == CHOOSE i \in idx : \A j \in idx : i <= j
            IN <<SubSeq(s, 1, epos - 1), SubSeq(s, epos, Len(s))>>

\* the whole mantissas coloured when they differ anywhere
colorize_whole(s1, s2) ==
    LET mant1 == split_exp(s1)[1]
        exp1  == split_exp(s1)[2]
        mant2 == split_exp(s2)[1]
        exp2  == split_exp(s2)[2]
        n     == Min(Len(mant1), Len(mant2))
        dif   == {i \in 1..n : mant1[i] # mant2[i]}
        diff_start == IF dif = {} THEN n
                      ELSE 0
        m1 == IF diff_start < Len(mant1)
              THEN SubSeq(mant1, 1, diff_start) \o RED
                   \o SubSeq(mant1, diff_start + 1, Len(mant1)) \o RESET
              ELSE mant1
        m2 == IF diff_start < Len(mant2)
              THEN SubSeq(mant2, 1, diff_start) \o RED
                   \o SubSeq(mant2, diff_start + 1, Len(mant2)) \o RESET
              ELSE mant2
        redExp  == diff_start < n \/ Len(mant1) # Len(mant2) \/ exp1 # exp2
        e1 == IF exp1 = <<>> THEN <<>>
              ELSE IF redExp THEN RED \o exp1 \o RESET ELSE exp1
        e2 == IF exp2 = <<>> THEN <<>>
              ELSE IF redExp THEN RED \o exp2 \o RESET ELSE exp2
    IN <<m1 \o e1, m2 \o e2>>

\* the exponents coloured only when they differ from each other
colorize_exp_differ(s1, s2) ==
    LET mant1 == split_exp(s1)[1]
        exp1  == split_exp(s1)[2]
        mant2 == split_exp(s2)[1]
        exp2  == split_exp(s2)[2]
        n     == Min(Len(mant1), Len(mant2))
        dif   == {i \in 1..n : mant1[i] # mant2[i]}
        \* 0-based index of the first differing character, n if there is none
        diff_start == IF dif = {} THEN n
                      ELSE (CHOOSE i \in dif : \A j \in dif : i <= j) - 1
        m1 == IF diff_start < Len(mant1)
              THEN SubSeq(mant1, 1, diff_start) \o RED
                   \o SubSeq(mant1, diff_start + 1, Len(mant1)) \o RESET
              ELSE mant1
        m2 == IF diff_start < Len(mant2)
              THEN SubSeq(mant2, 1, diff_start) \o RED
                   \o SubSeq(mant2, diff_start + 1, Len(mant2)) \o RESET
              ELSE mant2
        redExp  == exp1 # exp2
        e1 == IF exp1 = <<>> THEN <<>>
              ELSE IF redExp THEN RED \o exp1 \o RESET ELSE exp1
        e2 == IF exp2 = <<>> THEN <<>>
              ELSE IF redExp THEN RED \o exp2 \o RESET ELSE exp2
    IN <<m1 \o e1, m2 \o e2>>

\* returns <<s1, s2>> as left in place by the function
colorize_different_digits(s1, s2) ==
    LET mant1 == split_exp(s1)[1]
        exp1  == split_exp(s1)[2]
        mant2 == split_exp(s2)[1]
        exp2  == split_exp(s2)[2]
        n     == Min(Len(mant1), Len(mant2))
        dif   == {i \in 1..n : mant1[i] # mant2[i]}
        \* 0-based index of the first differing character, n if there is none
        diff_start == IF dif = {} THEN n
                      ELSE (CHOOSE i \in dif : \A j \in dif : i <= j) - 1
        m1 == IF diff_start < Len(mant1)
              THEN SubSeq(mant1, 1, diff_start) \o RED
                   \o SubSeq(mant1, diff_start + 1, Len(mant1)) \o RESET
              ELSE mant1
        m2 == IF diff_start < Len(mant2)
              THEN SubSeq(mant2, 1, diff_start) \o RED
                   \o SubSeq(mant2, diff_start + 1, Len(mant2)) \o RESET
              ELSE mant2
        redExp  == diff_start < n \/ Len(mant1) # Len(mant2) \/ exp1 # exp2
        e1 == IF exp1 = <<>> THEN <<>>
              ELSE IF redExp THEN RED \o exp1 \o RESET ELSE exp1
        e2 == IF exp2 = <<>> THEN <<>>
              ELSE IF redExp THEN RED \o exp2 \o RESET ELSE exp2
    IN <<m1 \o e1, m2 \o e2>>

-----------------------------------------------------------------------------
(* Printer: each operator returns the lines it writes to the stream *)

RECURSIVE side_by_side_from(_, _, _, _, _, _, _)
\* the column loop of print_side_by_side_tokens; returns <<oss1.str(), oss2.str()>>
side_by_side_from(tokens1, tokens2, col_widths, line_length, i, l1, l2) ==
    LET ncols == Max(Len(tokens1), Len(tokens2))
    IN IF i > ncols THEN <<l1, l2>>
       ELSE LET t1   == IF i <= Len(tokens1) THEN tokens1[i] ELSE <<>>
                t2   == IF i <= Len(tokens2) THEN tokens2[i] ELSE <<>>
                t1_stripped == strip_ansi(t1)
                t2_stripped == strip_ansi(t2)
                colw == Max(IF i <= Len(col_widths) THEN col_widths[i] ELSE line_length,
                            Max(Len(t1_stripped), Len(t2_stripped)))
                sep  == IF i + 1 <= ncols THEN <<" ">> ELSE <<>>
            IN side_by_side_from(tokens1, tokens2, col_widths, line_length, i + 1,
                   l1 \o t1 \o Spaces(colw - Len(t1_stripped)) \o sep,
                   l2 \o t2 \o Spaces(colw - Len(t2_stripped)) \o sep)

print_side_by_side_tokens(tokens1, tokens2, col_widths, line_length) ==
    Bind(side_by_side_from(tokens1, tokens2, col_widths, line_length, 1, <<>>, <<>>),
         LAMBDA built :
            LET l1      == built[1]
                l2      == built[2]
                has_red == string_is_red(l1) \/ string_is_red(l2)
                sep     == IF has_red THEN <<" ", " ", " ", "|", " ", " ", " ">>
                           ELSE Spaces(7)
            IN <<extract_visible_prefix(l1, line_length) \o sep
                 \o extract_visible_prefix(l2, line_length)>>)

print_diff(output1, output2, errors) ==
    IF string_is_red(output1) \/ string_is_red(output2)
    THEN << <<>>, <<"<", " ">> \o output1, <<">", " ">> \o output2,
            <<">", ">">> \o errors >>
    ELSE <<>>

-----------------------------------------------------------------------------
(* NumericDiff::compare_lines *)

NoLocals ==
    [output1 |-> <<>>, output2 |-> <<>>, errors |-> <<>>, is_diff |-> <<>>,
     any_error |-> FALSE, max_diff_this_line |-> PctZero, cols |-> <<>>]

\* compare_column taking textually different opaque tokens for a difference
compare_column_text(tokens1, tokens2, col_widths, i, L) ==
    IF options.columns_to_compare # {} /\ i \notin options.columns_to_compare
    THEN L
    ELSE IF string_is_numeric(tokens1[i]) /\ string_is_numeric(tokens2[i])
    THEN Bind(stod(tokens1[i]), LAMBDA v1 :
         Bind(stod(tokens2[i]), LAMBDA v2 :
         Bind(percentage_difference(v1, v2), LAMBDA diff :
            IF PctLess(options.tolerance, PctAbs(diff))
            THEN LET t == IF options.color_diff_digits
                          THEN colorize_different_digits(tokens1[i], tokens2[i])
                          ELSE <<make_red(tokens1[i]), make_red(tokens2[i])>>
                 IN [output1 |-> Append(L.output1, t[1]),
                     output2 |-> Append(L.output2, t[2]),
                     errors  |-> Append(L.errors, FormatError(diff, col_widths[i])),
                     is_diff |-> Append(L.is_diff, TRUE),
                     any_error |-> TRUE,
                     max_diff_this_line |->
                         IF PctLess(L.max_diff_this_line, PctAbs(diff))
                         THEN PctAbs(diff) ELSE L.max_diff_this_line,
                     cols |-> Append(L.cols, [col |-> i, numeric |-> TRUE,
                                              diff |-> diff])]
            ELSE [L EXCEPT !.output1 = Append(@, tokens1[i]),
                           !.output2 = Append(@, tokens2[i]),
                           !.errors  = Append(@, Spaces(col_widths[i])),
                           !.is_diff = Append(@, FALSE),
                           !.cols    = Append(@, [col |-> i, numeric |-> TRUE,
                                                  diff |-> diff])])))
    ELSE [L EXCEPT !.output1 = Append(@, tokens1[i]),
                   !.output2 = Append(@, tokens2[i]),
                   !.errors  = Append(@, Spaces(col_widths[i])),
                   !.is_diff = Append(@, tokens1[i] # tokens2[i]),
                   !.any_error = @ \/ tokens1[i] # tokens2[i],
                   !.cols    = Append(@, [col |-> i, numeric |-> FALSE,
                                          diff |-> PctZero])]

\* the column loop body keeping the smaller error of the line
compare_column_min(tokens1, tokens2, col_widths, i, L) ==
    IF options.columns_to_compare # {} /\ i \notin options.columns_to_compare
    THEN L
    ELSE IF string_is_numeric(tokens1[i]) /\ string_is_numeric(tokens2[i])
    THEN Bind(stod(tokens1[i]), LAMBDA v1 :
         Bind(stod(tokens2[i]), LAMBDA v2 :
         Bind(percentage_difference(v1, v2), LAMBDA diff :
            IF PctLess(options.tolerance, PctAbs(diff))
            THEN LET t == IF options.color_diff_digits
                          THEN colorize_different_digits(tokens1[i], tokens2[i])
                          ELSE <<make_red(tokens1[i]), make_red(tokens2[i])>>
                 IN [output1 |-> Append(L.output1, t[1]),
                     output2 |-> Append(L.output2, t[2]),
                     errors  |-> Append(L.errors, FormatError(diff, col_widths[i])),
                     is_diff |-> Append(L.is_diff, TRUE),
                     any_error |-> TRUE,
                     max_diff_this_line |->
                         IF PctLess(PctAbs(diff), L.max_diff_this_line)
                         THEN PctAbs(diff) ELSE L.max_diff_this_line,
                     cols |-> Append(L.cols, [col |-> i, numeric |-> TRUE,
                                              diff |-> diff])]
            ELSE [L EXCEPT !.output1 = Append(@, tokens1[i]),
                           !.output2 = Append(@, tokens2[i]),
                           !.errors  = Append(@, Spaces(col_widths[i])),
                           !.is_diff = Append(@, FALSE),
                           !.cols    = Append(@, [col |-> i, numeric |-> TRUE,
                                                  diff |-> diff])])))
    ELSE [L EXCEPT !.output1 = Append(@, tokens1[i]),
                   !.output2 = Append(@, tokens2[i]),
                   !.errors  = Append(@, Spaces(col_widths[i])),
                   !.is_diff = Append(@, FALSE),
                   !.cols    = Append(@, [col |-> i, numeric |-> FALSE,
                                          diff |-> PctZero])]

\* One pass of the column loop for column i (1-based) on the locals L.
\* cols logs, for each column that is not skipped, its index, whether both
\* tokens were numeric and the value percentage_difference returned.
compare_column(tokens1, tokens2, col_widths, i, L) ==
    IF options.columns_to_compare # {} /\ i \notin options.columns_to_compare
    THEN L
    ELSE IF string_is_numeric(tokens1[i]) /\ string_is_numeric(tokens2[i])
    THEN Bind(stod(tokens1[i]), LAMBDA v1 :
         Bind(stod(tokens2[i]), LAMBDA v2 :
         Bind(percentage_difference(v1, v2), LAMBDA diff :
            IF PctLess(options.tolerance, PctAbs(diff))
            THEN LET t == IF options.color_diff_digits
                          THEN colorize_different_digits(tokens1[i], tokens2[i])
                          ELSE <<make_red(tokens1[i]), make_red(tokens2[i])>>
                 IN [output1 |-> Append(L.output1, t[1]),
                     output2 |-> Append(L.output2, t[2]),
                     errors  |-> Append(L.errors, FormatError(diff, col_widths[i])),
                     is_diff |-> Append(L.is_diff, TRUE),
                     any_error |-> TRUE,
                     max_diff_this_line |->
                         IF PctLess(L.max_diff_this_line, PctAbs(diff))
                         THEN PctAbs(diff) ELSE L.max_diff_this_line,
                     cols |-> Append(L.cols, [col |-> i, numeric |-> TRUE,
                                              diff |-> diff])]
            ELSE [L EXCEPT !.output1 = Append(@, tokens1[i]),
                           !.output2 = Append(@, tokens2[i]),
                           !.errors  = Append(@, Spaces(col_widths[i])),
                           !.is_diff = Append(@, FALSE),
                           !.cols    = Append(@, [col |-> i, numeric |-> TRUE,
                                                  diff |-> diff])])))
    ELSE [L EXCEPT !.output1 = Append(@, tokens1[i]),
                   !.output2 = Append(@, tokens2[i]),
                   !.errors  = Append(@, Spaces(col_widths[i])),
                   !.is_diff = Append(@, FALSE),
                   !.cols    = Append(@, [col |-> i, numeric |-> FALSE,
                                          diff |-> PctZero])]

RECURSIVE column_loop_quiet(_, _, _, _, _)
\* the column loop comparing nothing in only_equal mode
column_loop_quiet(tokens1, tokens2, col_widths, i, L) ==
    IF i > Len(col_widths) \/ options.only_equal THEN L
    ELSE Bind(compare_column(tokens1, tokens2, col_widths, i, L),
              LAMBDA M : column_loop_quiet(tokens1, tokens2, col_widths, i + 1, M))

RECURSIVE column_loop(_, _, _, _, _)
\* for (size_t i = 0; i < n; ++i) { ... }
column_loop(tokens1, tokens2, col_widths, i, L) ==
    IF i > Len(col_widths) THEN L
    ELSE Bind(compare_column(tokens1, tokens2, col_widths, i, L),
              LAMBDA M : column_loop(tokens1, tokens2, col_widths, i + 1, M))

\* the rendering dispatch printing common lines under suppress_common_lines
render_all(L, col_widths) ==
    IF options.only_equal THEN <<>>
    ELSE IF options.side_by_side
    THEN print_side_by_side_tokens(L.output1, L.output2, col_widths,
                                   options.line_length)
    ELSE print_diff(Join(L.output1), Join(L.output2), Join(L.errors))

\* what the rendering dispatch at the end of compare_lines prints
render(L, col_widths) ==
    IF options.only_equal THEN <<>>
    ELSE IF options.side_by_side
    THEN IF options.suppress_common_lines /\ ~L.any_error THEN <<>>
         ELSE print_side_by_side_tokens(L.output1, L.output2, col_widths,
                                        options.line_length)
    ELSE print_diff(Join(L.output1), Join(L.output2), Join(L.errors))

\* compare_lines without the token count check: the columns both lines have
\* are compared
compare_lines_unchecked(line1, line2) ==
    Bind(tokenize(line1), LAMBDA tokens1 :
    Bind(tokenize(line2), LAMBDA tokens2 :
    Bind(calculate_col_widths(tokens1, tokens2), LAMBDA col_widths :
    Bind(column_loop(tokens1, tokens2, col_widths, 1, NoLocals), LAMBDA L :
        [threw |-> FALSE,
         res |-> IF L.any_error
                 THEN [first |-> TRUE, second |-> L.max_diff_this_line]
                 ELSE [first |-> FALSE, second |-> PctZero],
         printed |-> render(L, col_widths),
         tokens1 |-> tokens1, tokens2 |-> tokens2,
         col_widths |-> col_widths, locals |-> L]))))

\* threw: std::runtime_error("Column count mismatch") left the function;
\* res: the returned pair; printed: the lines written; the rest are the locals.
compare_lines(line1, line2) ==
    Bind(tokenize(line1), LAMBDA tokens1 :
    Bind(tokenize(line2), LAMBDA tokens2 :
        IF Len(tokens1) # Len(tokens2)
        THEN [threw |-> TRUE, res |-> [first |-> FALSE, second |-> PctZero],
              printed |-> <<>>, tokens1 |-> tokens1, tokens2 |-> tokens2,
              col_widths |-> <<>>, locals |-> NoLocals]
        ELSE Bind(calculate_col_widths(tokens1, tokens2), LAMBDA col_widths :
             Bind(column_loop(tokens1, tokens2, col_widths, 1, NoLocals), LAMBDA L :
                [threw |-> FALSE,
                 res |-> IF L.any_error
                         THEN [first |-> TRUE, second |-> L.max_diff_this_line]
                         ELSE [first |-> FALSE, second |-> PctZero],
                 printed |-> render(L, col_widths),
                 tokens1 |-> tokens1, tokens2 |-> tokens2,
                 col_widths |-> col_widths, locals |-> L]))))

-----------------------------------------------------------------------------
(* Inputs *)

\* longest input file of the file family, in lines
MaxLines == 2

\* NumericDiffOption defaults: tolerance 1E-2, threshold 1E-6, line_length 60
DefaultTolerance == [n |-> 1, d |-> 100]

DefaultThreshold == [m |-> 1, e |-> -6]

DefaultLineLength == 60

Tolerances == {DefaultTolerance, [n |-> 25, d |-> 1]}

Thresholds == {DefaultThreshold, [m |-> 1, e |-> -5]}

Hash == <<"#">>

DefaultOptions ==
    [tolerance |-> DefaultTolerance, threshold |-> DefaultThreshold,
     comment_prefix |-> Hash, side_by_side |-> FALSE,
     suppress_common_lines |-> FALSE, only_equal |-> FALSE, quiet |-> FALSE,
     line_length |-> DefaultLineLength, color_diff_digits |-> FALSE,
     columns_to_compare |-> {}]

\* numeric tokens of the value family
NumTokens ==
    { <<"0">>, <<"1", "e", "-", "7">>, <<"2", "e", "-", "7">>,
      <<"1", "e", "-", "5">>, <<"3">>, <<"4">>, <<"-", "3">>,
      <<"2", ".", "0", "0">>, <<"2", ".", "0", "1">>,
      <<"1", ".", "0", "0", "0", "1">>, <<"1", ".", "0", "0", "0", "0">> }

\* lines of the file family: a comment, an empty line, a line of blanks,
\* two two-column lines that differ in both columns, a one-column line
CommentLine == <<"#", "c">>

EmptyLine == <<>>

BlankLine == <<" ", "\t">>

FileLines1 ==
    { CommentLine, EmptyLine, BlankLine, <<"4", " ", "x">>, <<"2">> }

FileLines2 ==
    { <<" ", "#", "c">>, EmptyLine, <<"4", " ", "x">>, <<"3", " ", " ", "y">>,
      <<"2">> }

\* lines of the line family: numeric and opaque tokens in either column
PairLines ==
    { <<"4", " ", "x">>, <<"3", " ", "y">>, <<"4", " ", "3">>,
      <<"x", " ", "4">>, <<"3", "\t", "4", ".", "0">> }

ColumnSets == { {}, {1}, {2} }

SeqsUpTo(S, k) == UNION {[1..j -> S] : j \in 0..k}

Started ==
    /\ m_comment_prefix = options.comment_prefix
    /\ pos1 = 0 /\ pos2 = 0
    /\ file1_has_line = TRUE /\ file2_has_line = TRUE
    /\ result = [n_different_lines |-> 0, max_percentage_err |-> PctZero]
    /\ pc = "reading" /\ error = "" /\ out = <<>> /\ calls = <<>>
    /\ arg = <<>> /\ ret = <<>>
    /\ summary = <<>> /\ exit_code = <<>>

\* whole files, with and without comment skipping
InitFiles ==
    /\ file1 \in SeqsUpTo(FileLines1, MaxLines)
    /\ file2 \in SeqsUpTo(FileLines2, MaxLines)
    /\ options \in {[DefaultOptions EXCEPT !.comment_prefix = p] : p \in {Hash, <<>>}}
    /\ Started

\* one value against one value under each tolerance and threshold
InitValues ==
    /\ file1 \in {<<t>> : t \in NumTokens}
    /\ file2 \in {<<t>> : t \in NumTokens}
    /\ options \in {[DefaultOptions EXCEPT !.tolerance = tol, !.threshold = thr] :
                       tol \in Tolerances, thr \in Thresholds}
    /\ Started

\* one line against one line under each column selection
InitLines ==
    /\ file1 \in {<<l>> : l \in PairLines}
    /\ file2 \in {<<l>> : l \in PairLines}
    /\ options \in {[DefaultOptions EXCEPT !.tolerance = tol, !.columns_to_compare = c] :
                       tol \in Tolerances, c \in ColumnSets}
    /\ Started

Init == InitFiles \/ InitValues \/ InitLines

-----------------------------------------------------------------------------
(* NumericDiff::run *)

\* the comment test of run(): TextParser::line_is_comment(line) reads the
\* static prefix; the guard reads options_.comment_prefix
skipped(line) ==
    options.comment_prefix # <<>> /\ line_is_comment(line, m_comment_prefix)

\* advance skipping at most one comment line (an if for the while)
advance_once(file, pos) ==
    IF pos >= Len(file) THEN [has |-> FALSE, line |-> <<>>, pos |-> pos]
    ELSE IF skipped(file[pos + 1])
    THEN IF pos + 1 >= Len(file)
         THEN [has |-> FALSE, line |-> <<>>, pos |-> pos + 1]
         ELSE [has |-> TRUE, line |-> file[pos + 2], pos |-> pos + 2]
    ELSE [has |-> TRUE, line |-> file[pos + 1], pos |-> pos + 1]

RECURSIVE advance_nonblank(_, _)
\* advance skipping empty lines as well as comment lines
advance_nonblank(file, pos) ==
    IF pos >= Len(file) THEN [has |-> FALSE, line |-> <<>>, pos |-> pos]
    ELSE IF skipped(file[pos + 1]) \/ file[pos + 1] = <<>>
    THEN advance_nonblank(file, pos + 1)
    ELSE [has |-> TRUE, line |-> file[pos + 1], pos |-> pos + 1]

RECURSIVE advance(_, _)
\* "Advance file to next non-comment line": the inner while loop of run().
\* has: fileN_has_line afterwards; line: lineN; pos: lines consumed.
advance(file, pos) ==
    IF pos >= Len(file) THEN [has |-> FALSE, line |-> <<>>, pos |-> pos]
    ELSE IF skipped(file[pos + 1]) THEN advance(file, pos + 1)
    ELSE [has |-> TRUE, line |-> file[pos + 1], pos |-> pos + 1]

Call(phase, i1, i2, l1, l2, c) ==
    [phase |-> phase, idx1 |-> i1, idx2 |-> i2, line1 |-> l1, line2 |-> l2,
     threw |-> c.threw, res |-> c.res, printed |-> c.printed,
     tokens1 |-> c.tokens1, tokens2 |-> c.tokens2,
     col_widths |-> c.col_widths, locals |-> c.locals]

\* the synchronised loop counting every compared pair as differing
ReadPair_counts_all ==
    /\ pc = "reading"
    /\ \E a1 \in {advance(file1, pos1)}, a2 \in {advance(file2, pos2)} :
       \E c \in {compare_lines(a1.line, a2.line)} :
          /\ pos1' = a1.pos /\ pos2' = a2.pos
          /\ file1_has_line' = a1.has /\ file2_has_line' = a2.has
          /\ IF ~a1.has /\ ~a2.has
             THEN /\ pc' = "drain1"
                  /\ UNCHANGED <<result, error, out, calls>>
             ELSE /\ calls' = Append(calls,
                        Call("reading", IF a1.has THEN a1.pos ELSE 0,
                             IF a2.has THEN a2.pos ELSE 0, a1.line, a2.line, c))
                  /\ IF c.threw
                     THEN /\ pc' = "fatal"
                          /\ error' = "Column count mismatch"
                          /\ UNCHANGED <<result, out>>
                     ELSE /\ out' = out \o c.printed
                          /\ result' =
                               IF TRUE
                               THEN [n_different_lines |->
                                         result.n_different_lines + 1,
                                     max_percentage_err |->
                                         IF PctLess(result.max_percentage_err,
                                                    c.res.second)
                                         THEN c.res.second
                                         ELSE result.max_percentage_err]
                               ELSE result
                          /\ pc' = IF a1.has /\ a2.has THEN "reading" ELSE "drain1"
                          /\ error' = error
    /\ UNCHANGED <<arg, ret, summary, exit_code, options, m_comment_prefix, file1, file2>>

\* one iteration of while (file1_has_line && file2_has_line), with the test
\* of the loop condition that follows it
ReadPair ==
    /\ pc = "reading"
    /\ \E a1 \in {advance(file1, pos1)}, a2 \in {advance(file2, pos2)} :
       \E c \in {compare_lines(a1.line, a2.line)} :
          /\ pos1' = a1.pos /\ pos2' = a2.pos
          /\ file1_has_line' = a1.has /\ file2_has_line' = a2.has
          /\ IF ~a1.has /\ ~a2.has
             THEN /\ pc' = "drain1"
                  /\ UNCHANGED <<result, error, out, calls>>
             ELSE /\ calls' = Append(calls,
                        Call("reading", IF a1.has THEN a1.pos ELSE 0,
                             IF a2.has THEN a2.pos ELSE 0, a1.line, a2.line, c))
                  /\ IF c.threw
                     THEN /\ pc' = "fatal"
                          /\ error' = "Column count mismatch"
                          /\ UNCHANGED <<result, out>>
                     ELSE /\ out' = out \o c.printed
                          /\ result' =
                               IF c.res.first
                               THEN [n_different_lines |->
                                         result.n_different_lines + 1,
                                     max_percentage_err |->
                                         IF PctLess(result.max_percentage_err,
                                                    c.res.second)
                                         THEN c.res.second
                                         ELSE result.max_percentage_err]
                               ELSE result
                          /\ pc' = IF a1.has /\ a2.has THEN "reading" ELSE "drain1"
                          /\ error' = error
    /\ UNCHANGED <<arg, ret, summary, exit_code, options, m_comment_prefix, file1, file2>>

\* one iteration of a drain loop on an orphan line of file 1 (side = 1) or
\* file 2 (side = 2): the line is skipped or compared with the empty line
DrainLine(side, line, idx) ==
    IF skipped(line)
    THEN UNCHANGED <<pc, error, out, calls>>
    ELSE \E c \in {IF side = 1 THEN compare_lines(line, <<>>)
                   ELSE compare_lines(<<>>, line)} :
            /\ calls' = Append(calls,
                  IF side = 1 THEN Call("drain1", idx, 0, line, <<>>, c)
                  ELSE Call("drain2", 0, idx, <<>>, line, c))
            /\ IF c.threw
               THEN /\ pc' = "fatal"
                    /\ error' = "Column count mismatch"
                    /\ out' = out
               ELSE /\ out' = out \o c.printed
                    /\ IF PctLess(PctZero, c.res.second)
                       THEN /\ pc' = "fatal"
                            /\ error' = "Error: compare line on empty line resulted wrong."
                       ELSE UNCHANGED <<pc, error>>

\* while (std::getline(fs1, line1)) { ... }
Drain1Step ==
    /\ pc = "drain1"
    /\ pos1 < Len(file1)
    /\ pos1' = pos1 + 1
    /\ DrainLine(1, file1[pos1 + 1], pos1 + 1)
    /\ UNCHANGED <<arg, ret, summary, exit_code, options, m_comment_prefix, file1, file2, pos2,
                   file1_has_line, file2_has_line, result>>

\* the drain of file 1 ending back in the synchronised loop
Drain1End_restart ==
    /\ pc = "drain1"
    /\ pos1 >= Len(file1)
    /\ pc' = "reading"
    /\ UNCHANGED <<arg, ret, summary, exit_code, options, m_comment_prefix, file1,
                   file2, pos1, pos2, file1_has_line, file2_has_line, result,
                   error, out, calls>>

Drain1End ==
    /\ pc = "drain1"
    /\ pos1 >= Len(file1)
    /\ pc' = "drain2"
    /\ UNCHANGED <<arg, ret, summary, exit_code, options, m_comment_prefix, file1, file2, pos1, pos2,
                   file1_has_line, file2_has_line, result, error, out, calls>>

\* while (std::getline(fs2, line2)) { ... }
Drain2Step ==
    /\ pc = "drain2"
    /\ pos2 < Len(file2)
    /\ pos2' = pos2 + 1
    /\ DrainLine(2, file2[pos2 + 1], pos2 + 1)
    /\ UNCHANGED <<arg, ret, summary, exit_code, options, m_comment_prefix, file1, file2, pos1,
                   file1_has_line, file2_has_line, result>>

\* return result
Return ==
    /\ pc = "drain2"
    /\ pos2 >= Len(file2)
    /\ pc' = "done"
    /\ UNCHANGED <<arg, ret, summary, exit_code, options, m_comment_prefix, file1, file2, pos1, pos2,
                   file1_has_line, file2_has_line, result, error, out, calls>>

Next == ReadPair \/ Drain1Step \/ Drain1End \/ Drain2Step \/ Return

Spec == Init /\ [][Next]_vars

\* files of comment lines, empty lines and one-column lines
InitLive ==
    /\ file1 \in SeqsUpTo({CommentLine, EmptyLine, <<"2">>}, MaxLines)
    /\ file2 \in SeqsUpTo({EmptyLine, <<"2">>}, MaxLines)
    /\ options = DefaultOptions
    /\ Started

\* run() executes its next statement whenever there is one
SpecLive == InitLive /\ [][Next]_vars /\ WF_vars(Next)

-----------------------------------------------------------------------------
(* run() under every combination of the rendering switches *)

\* three-column lines: LineA and LineB differ in columns 1 and 2 and hold
\* different opaque tokens in column 3; RedLine holds a token that carries
\* the escape sequence \033[31m in the file itself
LineA ==
    <<"3", ".", "1", "4", "1", "5", "9", " ", "1", "e", "-", "7", " ", "x">>

LineB ==
    <<"3", ".", "1", "4", "2", "5", "9", " ", "1", "e", "-", "5", " ", "y">>

RedLine == RED \o <<"x", " ", "2", " ", "z">>

\* a pair of lines that differ in the first token and whose last token starts
\* a highlight that the line does not close
TailA == <<"2", " ">> \o RED \o <<"x">>

TailB == <<"3", " ">> \o RED \o <<"x">>

\* a line whose first token is an escape sequence that no "m" ends, and a
\* line of plain tokens of the same lengths
OpenA == <<"ESC", "[", " ", "5">>

OpenB == <<"a", "b", " ", "5">>

\* a pair of lines whose second token ends at the tenth visible character
LineC == <<"d", "e", "n", "s", "i", "t", "y", " ", "1", "7", " ", "x">>

LineD == <<"d", "e", "n", "s", "i", "t", "y", " ", "1", "5", " ", "x">>

ModeFiles1 ==
    { <<>>, <<LineA>>, <<RedLine>>, <<LineC>>, <<TailA>>, <<OpenA>>,
      <<LineA, LineB>>,
      <<EmptyLine, EmptyLine>> }

ModeFiles2 ==
    { <<>>, <<LineA>>, <<LineB>>, <<RedLine>>, <<LineD>>, <<TailB>>,
      <<OpenB>>, <<LineB, LineA>>,
      <<LineA, LineA>>, <<EmptyLine, EmptyLine>> }

\* the smallest line length the command line accepts, and the default
MinLineLength == 10

LineLengths == {MinLineLength, DefaultLineLength}

ModeColumnSets == { {}, {3} }

InitModes ==
    /\ file1 \in ModeFiles1
    /\ file2 \in ModeFiles2
    /\ options \in
          {[DefaultOptions EXCEPT !.side_by_side = sbs,
                                  !.suppress_common_lines = scl,
                                  !.only_equal = oe, !.quiet = q,
                                  !.color_diff_digits = cdd,
                                  !.line_length = ll,
                                  !.columns_to_compare = c] :
              sbs \in BOOLEAN, scl \in BOOLEAN, oe \in BOOLEAN, q \in BOOLEAN,
              cdd \in BOOLEAN, ll \in LineLengths, c \in ModeColumnSets}
    /\ Started

SpecModes == InitModes /\ [][Next]_vars

-----------------------------------------------------------------------------
(* A second NumericDiff object *)

\* the comment prefix of the options of another comparison
Percent == <<"%">>

OtherPrefixes == {Percent, <<>>}

\* NumericDiff other(opts) with another comment prefix is constructed after
\* this object and before its run() is called: the constructor stores the
\* prefix in the static TextParser::m_comment_prefix
ConstructOther ==
    /\ pc = "reading" /\ pos1 = 0 /\ pos2 = 0 /\ calls = <<>>
    /\ file1_has_line /\ file2_has_line
    /\ \E p \in OtherPrefixes :
          /\ p # m_comment_prefix
          /\ m_comment_prefix' = p
    /\ UNCHANGED <<arg, ret, summary, exit_code, options, file1, file2, pos1,
                   pos2, file1_has_line, file2_has_line, result, pc, error, out,
                   calls>>

NextCoupled == ConstructOther \/ Next

SpecCoupled == InitFiles /\ [][NextCoupled]_vars

-----------------------------------------------------------------------------
(* main(): what follows diff.run() *)

\* the three lines quiet mode writes when the files differ
DifferSummary ==
    << [line |-> "Comparing", first |-> "file1", second |-> "file2"],
       [line |-> "Tolerance", tolerance |-> options.tolerance,
        threshold |-> options.threshold],
       [line |-> "Files DIFFER", n_different_lines |-> result.n_different_lines,
        max_percentage_err |-> result.max_percentage_err] >>

\* the lines only_equal mode writes: the first names options.file1 twice
OnlyEqualSummary ==
    << [line |-> "Comparing", first |-> "file1", second |-> "file1"],
       [line |-> "Tolerance", tolerance |-> options.tolerance,
        threshold |-> options.threshold],
       IF result.n_different_lines = 0
       THEN [line |-> "Files are EQUAL within tolerance."]
       ELSE [line |-> "Files DIFFER",
             n_different_lines |-> result.n_different_lines,
             max_percentage_err |-> result.max_percentage_err] >>

\* r = diff.run() returned: the quiet and only_equal reports, return 0
MainReturns ==
    /\ pc = "done"
    /\ summary' = IF options.quiet
                  THEN IF result.n_different_lines = 0 THEN <<>>
                       ELSE DifferSummary
                  ELSE IF options.only_equal THEN OnlyEqualSummary
                  ELSE <<>>
    /\ exit_code' = <<0>>
    /\ pc' = "exited"
    /\ UNCHANGED <<arg, ret, options, m_comment_prefix, file1, file2, pos1, pos2,
                   file1_has_line, file2_has_line, result, error, out, calls>>

\* catch (const std::runtime_error& e): what() goes to std::cerr, return -1
MainCatches ==
    /\ pc = "fatal"
    /\ exit_code' = <<-1>>
    /\ pc' = "exited"
    /\ UNCHANGED <<arg, ret, summary, options, m_comment_prefix, file1, file2,
                   pos1, pos2, file1_has_line, file2_has_line, result, error,
                   out, calls>>

NextMain == Next \/ MainReturns \/ MainCatches

SpecMain == InitModes /\ [][NextMain]_vars

-----------------------------------------------------------------------------
(* Formatter functions called on their own *)

\* strings built from at most MaxPieces pieces: visible characters, whole
\* escape sequences and the characters escape sequences are made of
MaxPieces == 4

Pieces == { <<"a">>, RED, RESET, <<"ESC">>, <<"[">>, <<"m">> }

RECURSIVE Concat(_)
Concat(ps) == IF ps = <<>> THEN <<>> ELSE Head(ps) \o Concat(Tail(ps))

AnsiStrings == {Concat(ps) : ps \in SeqsUpTo(Pieces, MaxPieces)}

\* numeric-looking tokens of at most MaxTokenLen characters
MaxTokenLen == 3

TokenChars == {"1", "2", ".", "e"}

DigitStrings == SeqsUpTo(TokenChars, MaxTokenLen)

\* the pair of tokens of the documented example of colorize_different_digits
Pi1 == <<"3", ".", "1", "4", "1", "5", "9">>

Pi2 == <<"3", ".", "1", "4", "2", "5", "9">>

Idle ==
    /\ options = DefaultOptions
    /\ m_comment_prefix = options.comment_prefix
    /\ file1 = <<>> /\ file2 = <<>>
    /\ pos1 = 0 /\ pos2 = 0
    /\ file1_has_line = TRUE /\ file2_has_line = TRUE
    /\ result = [n_different_lines |-> 0, max_percentage_err |-> PctZero]
    /\ pc = "formatter" /\ error = "" /\ out = <<>> /\ calls = <<>>
    /\ ret = <<>>
    /\ summary = <<>> /\ exit_code = <<>>

InitFormatter ==
    /\ Idle
    /\ \/ arg \in {[fn |-> "extract_visible_prefix", input |-> s, n |-> k] :
                      s \in AnsiStrings, k \in 0..MaxPieces}
       \/ arg \in {[fn |-> "colorize_different_digits", s1 |-> a, s2 |-> b] :
                      a \in DigitStrings \cup {Pi1},
                      b \in DigitStrings \cup {Pi2}}

\* std::string r = Formatter::extract_visible_prefix(input, n)
CallExtractVisiblePrefix ==
    /\ pc = "formatter"
    /\ arg.fn = "extract_visible_prefix"
    /\ ret' = <<extract_visible_prefix(arg.input, arg.n)>>
    /\ pc' = "returned"
    /\ UNCHANGED <<arg, summary, exit_code, options, m_comment_prefix, file1, file2, pos1, pos2,
                   file1_has_line, file2_has_line, result, error, out, calls>>

\* Formatter::colorize_different_digits(s1, s2): ret holds s1 and s2 afterwards
CallColorizeDifferentDigits ==
    /\ pc = "formatter"
    /\ arg.fn = "colorize_different_digits"
    /\ ret' = colorize_different_digits(arg.s1, arg.s2)
    /\ pc' = "returned"
    /\ UNCHANGED <<arg, summary, exit_code, options, m_comment_prefix, file1, file2, pos1, pos2,
                   file1_has_line, file2_has_line, result, error, out, calls>>

NextFormatter == CallExtractVisiblePrefix \/ CallColorizeDifferentDigits

SpecFormatter == InitFormatter /\ [][NextFormatter]_vars

-----------------------------------------------------------------------------
(* Properties *)

\* the compare_lines calls that returned, and the columns they compared
Returned == {k \in 1..Len(calls) : ~calls[k].threw}

NumericCols(k) ==
    {j \in 1..Len(calls[k].locals.cols) : calls[k].locals.cols[j].numeric}

\* the two parsed values of the j-th surviving column of call k
Value1(k, j) == stod(calls[k].tokens1[calls[k].locals.cols[j].col])

Value2(k, j) == stod(calls[k].tokens2[calls[k].locals.cols[j].col])

Below(v, thr) == DecLess(DecAbs(v), thr)

\* |v1 - v2| / max(|v1|, |v2|) * 100 as a fraction in lowest terms
Relative(v1, v2) ==
    LET e == Min(v1.e, v2.e)
        a == AlignM(v1, e)
        b == AlignM(v2, e)
    IN Rat(Abs(a - b) * 100, Max(Abs(a), Abs(b)))

\* C1: every value percentage_difference returned follows the three-case
\* rule: 0 when both magnitudes are below the threshold; the sentinel 1e99
\* when exactly one is; otherwise 0 when the relative difference in percent
\* is below the tolerance and the relative difference itself when it is not.
C1_ThreeCaseRule ==
    \A k \in Returned : \A j \in NumericCols(k) :
        LET v1 == Value1(k, j)
            v2 == Value2(k, j)
            d  == calls[k].locals.cols[j].diff
            s1 == Below(v1, options.threshold)
            s2 == Below(v2, options.threshold)
        IN /\ (s1 /\ s2) => d = PctZero
           /\ (s1 # s2) => d = big
           /\ (~s1 /\ ~s2) =>
                 IF PctLess(Relative(v1, v2), options.tolerance)
                 THEN d = PctZero
                 ELSE d = Relative(v1, v2)

\* each of the three cases has been computed: the sentinel, a zero for two
\* values below the threshold, and a relative difference that is returned
C1_Witness ==
    /\ pc = "done"
    /\ \E k \in Returned : \E j \in NumericCols(k) :
          /\ calls[k].locals.cols[j].diff = big
          /\ Below(Value1(k, j), options.threshold)
          /\ Value1(k, j).m # 0

\* C2: a surviving column of two numeric tokens is marked as differing
\* exactly when percentage_difference returned a value greater than 0.
C2_MarkedIffPositive ==
    \A k \in Returned : \A j \in NumericCols(k) :
        calls[k].locals.is_diff[j] <=>
            PctLess(PctZero, calls[k].locals.cols[j].diff)

\* C3: with the default tolerance 1e-2, two values at or above the threshold
\* whose relative difference is below 1% are not reported as differing.
C3_DefaultToleranceIsOnePercent ==
    options.tolerance = DefaultTolerance =>
        \A k \in Returned : \A j \in NumericCols(k) :
            ( /\ ~Below(Value1(k, j), options.threshold)
              /\ ~Below(Value2(k, j), options.threshold)
              /\ PctLess(Relative(Value1(k, j), Value2(k, j)), [n |-> 1, d |-> 1]) )
            => ~calls[k].locals.is_diff[j]

\* C4: percentage_difference is symmetric: the value returned for (v1, v2) is
\* the value of percentage_difference(v2, v1).
C4_Symmetric ==
    \A k \in Returned : \A j \in NumericCols(k) :
        calls[k].locals.cols[j].diff =
            percentage_difference(Value2(k, j), Value1(k, j))

\* two different values above the threshold gave a relative difference
C4_Witness ==
    \E k \in Returned : \E j \in NumericCols(k) :
        /\ Value1(k, j) # Value2(k, j)
        /\ calls[k].locals.cols[j].diff \notin {PctZero, big}
        /\ Abs(Value1(k, j).m) # Abs(Value2(k, j).m)

\* the lines of a file that run() does not skip as comments
NoComments(file) ==
    SelectSeq(file, LAMBDA l : ~( /\ options.comment_prefix # <<>>
                                  /\ line_is_comment(l, options.comment_prefix) ))

\* the k-th line of a file, the empty line past its end
LineAt(file, k) == IF k <= Len(file) THEN file[k] ELSE <<>>

RECURSIVE Printed(_, _)
\* what the calls from the k-th on have printed, in order
Printed(log, k) ==
    IF k > Len(log) THEN <<>> ELSE log[k].printed \o Printed(log, k + 1)

\* C5: a pair of lines with different token counts makes the comparator fail
\* with "Column count mismatch": the call returns no outcome and prints
\* nothing, it is the last call of the run, the run is aborted with that
\* error, and the pair is not counted as a differing line.
C5_MismatchIsFatal ==
    /\ \A k \in 1..Len(calls) :
          Len(tokenize(calls[k].line1)) # Len(tokenize(calls[k].line2)) =>
             /\ calls[k].threw
             /\ calls[k].printed = <<>>
             /\ k = Len(calls)
             /\ pc = "fatal"
             /\ error = "Column count mismatch"
    /\ out = Printed(calls, 1)
    /\ result.n_different_lines =
          Cardinality({k \in Returned : calls[k].phase = "reading" /\ calls[k].res.first})

\* a run that printed a difference and then met a pair with different counts
C5_Witness ==
    /\ pc = "fatal"
    /\ Len(calls) = 2
    /\ Len(tokenize(calls[2].line1)) # Len(tokenize(calls[2].line2))
    /\ out # <<>>
    /\ result.n_different_lines = 1

\* C6: run() returns a Result only if both files have the same number of
\* non-comment lines.
C6_ReturnsOnlyOnEqualCounts ==
    pc = "done" => Len(NoComments(file1)) = Len(NoComments(file2))

RECURSIVE PairedOutcome(_, _, _, _)
\* the outcome of comparing the k-th and later lines of f1 and f2 pairwise,
\* a missing line counting as the empty line, starting from the result res
PairedOutcome(f1, f2, k, res) ==
    IF k > Max(Len(f1), Len(f2)) THEN [pc |-> "done", result |-> res]
    ELSE LET c == compare_lines(LineAt(f1, k), LineAt(f2, k))
         IN IF c.threw THEN [pc |-> "fatal", result |-> res]
            ELSE PairedOutcome(f1, f2, k + 1,
                    IF c.res.first
                    THEN [n_different_lines |-> res.n_different_lines + 1,
                          max_percentage_err |->
                              IF PctLess(res.max_percentage_err, c.res.second)
                              THEN c.res.second ELSE res.max_percentage_err]
                    ELSE res)

\* C7: with a non-empty comment prefix no comment line is passed to the
\* comparator: the k-th call compares the k-th non-comment lines of the two
\* files, and the run ends as the pairwise comparison of the two files with
\* their comment lines removed ends, with the same Result.
C7_CommentsNeverParticipate ==
    options.comment_prefix # <<>> =>
        /\ \A k \in 1..Len(calls) :
              /\ ~line_is_comment(calls[k].line1, options.comment_prefix)
              /\ ~line_is_comment(calls[k].line2, options.comment_prefix)
              /\ calls[k].line1 = LineAt(NoComments(file1), k)
              /\ calls[k].line2 = LineAt(NoComments(file2), k)
        /\ pc \in {"done", "fatal"} =>
              [pc |-> pc, result |-> result] =
                  PairedOutcome(NoComments(file1), NoComments(file2), 1,
                                [n_different_lines |-> 0,
                                 max_percentage_err |-> PctZero])

\* a finished run on a file with an extra comment line against one without
C7_Witness ==
    /\ pc = "done"
    /\ options.comment_prefix # <<>>
    /\ Len(file1) > Len(file2)
    /\ Len(NoComments(file1)) = Len(file2)
    /\ NoComments(file2) = file2
    /\ Len(calls) >= 1

\* C8: a pair of lines read from the two files of which one is empty or all
\* whitespace never raises a fatal error and never counts as differing.
C8_BlankLinesAccepted ==
    \A k \in 1..Len(calls) :
        ( /\ calls[k].idx1 > 0 /\ calls[k].idx2 > 0
          /\ (tokenize(calls[k].line1) = <<>> \/ tokenize(calls[k].line2) = <<>>) )
        => (~calls[k].threw /\ ~calls[k].res.first)

\* C9: in the drain phase every orphan line is compared with the empty line
\* and the comparison yields exactly zero; the internal-consistency error is
\* raised only after a drain comparison that yielded a positive error.
C9_DrainYieldsZero ==
    /\ \A k \in 1..Len(calls) :
          calls[k].phase \in {"drain1", "drain2"} =>
             /\ (calls[k].phase = "drain1") => calls[k].line2 = <<>>
             /\ (calls[k].phase = "drain2") => calls[k].line1 = <<>>
             /\ ~calls[k].threw
             /\ calls[k].res.second = PctZero
    /\ error = "Error: compare line on empty line resulted wrong." =>
          \E k \in Returned : /\ calls[k].phase \in {"drain1", "drain2"}
                              /\ PctLess(PctZero, calls[k].res.second)

\* the j-th surviving column of call k holds an opaque token
Opaque(k, j) ==
    LET i == calls[k].locals.cols[j].col
    IN ~( /\ string_is_numeric(calls[k].tokens1[i])
          /\ string_is_numeric(calls[k].tokens2[i]) )

\* C10: in a surviving column where a token is not numeric both tokens are
\* copied verbatim, without highlight, with a blank error placeholder, and
\* the column is not a difference: a line differs only by a numeric column.
C10_OpaqueNeverDiffers ==
    \A k \in Returned :
        LET L == calls[k].locals
        IN /\ \A j \in 1..Len(L.cols) :
                 Opaque(k, j) =>
                    /\ L.output1[j] = calls[k].tokens1[L.cols[j].col]
                    /\ L.output2[j] = calls[k].tokens2[L.cols[j].col]
                    /\ ~L.is_diff[j]
                    /\ L.errors[j] = Spaces(calls[k].col_widths[L.cols[j].col])
           /\ calls[k].res.first =>
                 \E j \in 1..Len(L.cols) : ~Opaque(k, j) /\ L.is_diff[j]

\* a line with textually different opaque tokens that does not differ
C10_Witness ==
    \E k \in Returned : \E j \in 1..Len(calls[k].locals.cols) :
        /\ Opaque(k, j)
        /\ calls[k].tokens1[calls[k].locals.cols[j].col] #
              calls[k].tokens2[calls[k].locals.cols[j].col]
        /\ ~calls[k].res.first
        /\ calls[k].printed = <<>>

\* a line with the token of every excluded column replaced by one fixed token
Canon(line) ==
    LET t == tokenize(line)
    IN Join([i \in 1..Len(t) |->
                IF options.columns_to_compare # {} /\ i \notin options.columns_to_compare
                THEN <<"_">> ELSE t[i]])

\* C11: with a non-empty column set the columns outside it are excluded
\* entirely: the outcome and the printed output of a compared pair are those
\* of the pair that differs from it only in the tokens of the excluded
\* columns, and so is the Result.
C11_ExcludedColumnsIgnored ==
    options.columns_to_compare # {} =>
        \A k \in Returned :
            LET c == compare_lines(Canon(calls[k].line1), Canon(calls[k].line2))
            IN /\ ~c.threw
               /\ c.res = calls[k].res
               /\ c.printed = calls[k].printed

\* the compared pairs that were reported as differing
DifferingCalls == {k \in Returned : calls[k].res.first}

RefDiffs(t1, t2) ==
    {PctAbs(percentage_difference(stod(t1[i]), stod(t2[i]))) :
        i \in {j \in 1..Min(Len(t1), Len(t2)) :
                 /\ options.columns_to_compare = {} \/ j \in options.columns_to_compare
                 /\ string_is_numeric(t1[j]) /\ string_is_numeric(t2[j])
                 /\ PctLess(options.tolerance,
                            PctAbs(percentage_difference(stod(t1[j]), stod(t2[j]))))}}

\* the greatest of a set of errors, zero for the empty set
PctMax(S) ==
    IF S = {} THEN PctZero
    ELSE CHOOSE p \in S : \A q \in S : q = p \/ PctLess(q, p)

\* the Result of the two files as a function of the files, the comment
\* prefix, the column set, the threshold and the tolerance
RefResult ==
    LET nc1 == NoComments(file1)
        nc2 == NoComments(file2)
        D   == [k \in 1..Min(Len(nc1), Len(nc2)) |->
                   RefDiffs(tokenize(nc1[k]), tokenize(nc2[k]))]
    IN [n_different_lines  |-> Cardinality({k \in DOMAIN D : D[k] # {}}),
        max_percentage_err |-> PctMax(UNION {D[k] : k \in DOMAIN D})]

\* C13: the Result run() returns is determined by the two files, the
\* tolerance, the threshold, the comment prefix and the column set: whatever
\* side_by_side, suppress_common_lines, only_equal, quiet, color_diff_digits
\* and line_length are, it equals a value computed without reading them.
C13_ResultIgnoresRendering ==
    pc = "done" => result = RefResult

\* a run in side-by-side, only_equal, quiet mode with digit colouring and the
\* smallest line_length that returns a differing Result
C13_Witness ==
    /\ pc = "done"
    /\ options.side_by_side /\ options.suppress_common_lines
    /\ options.only_equal /\ options.quiet /\ options.color_diff_digits
    /\ options.line_length = MinLineLength
    /\ result.n_different_lines = 2
    /\ result.max_percentage_err = big
    /\ result = RefResult

\* C14: in unified-diff mode (side_by_side and only_equal off) a pair prints
\* a block exactly when it differs, a block is the four lines blank,
\* "< " side 1, "> " side 2, ">>" errors, and the blocks printed so far are
\* as many as the differing lines counted in the Result.
C14_UnifiedBlockIffDiffers ==
    (~options.side_by_side /\ ~options.only_equal) =>
        /\ \A k \in Returned :
              /\ (calls[k].printed # <<>>) <=> calls[k].res.first
              /\ calls[k].printed # <<>> =>
                    calls[k].printed =
                       << <<>>,
                          <<"<", " ">> \o Join(calls[k].locals.output1),
                          <<">", " ">> \o Join(calls[k].locals.output2),
                          <<">", ">">> \o Join(calls[k].locals.errors) >>
        /\ Len(out) = 4 * result.n_different_lines

\* C15: when only_equal is set no pair prints anything; otherwise, in
\* side-by-side mode, every compared pair prints exactly one line, except
\* that under suppress_common_lines a pair that does not differ prints
\* nothing (and a pair that differs still prints exactly one line).
C15_RenderingDispatch ==
    \A k \in Returned :
        /\ options.only_equal => calls[k].printed = <<>>
        /\ (~options.only_equal /\ options.side_by_side) =>
              Len(calls[k].printed) =
                 IF options.suppress_common_lines /\ ~calls[k].res.first
                 THEN 0 ELSE 1

\* a side-by-side run under suppress_common_lines whose first pair matched
\* and printed nothing and whose second pair differed and printed one line
C15_Witness ==
    /\ options.side_by_side /\ options.suppress_common_lines
    /\ ~options.only_equal
    /\ pc = "done" /\ Len(calls) = 2
    /\ ~calls[1].res.first /\ calls[1].printed = <<>>
    /\ calls[2].res.first /\ Len(calls[2].printed) = 1
    /\ Len(out) = 1

\* C16: side-by-side rendering never shortens a token: the visible characters
\* of every output token of either side appear complete in the printed line.
C16_TokensNeverShortened ==
    (options.side_by_side /\ ~options.only_equal) =>
        \A k \in Returned :
            calls[k].printed # <<>> =>
                \A i \in 1..Len(calls[k].locals.output1) :
                    /\ Contains(strip_ansi(calls[k].printed[1]),
                                strip_ansi(calls[k].locals.output1[i]))
                    /\ Contains(strip_ansi(calls[k].printed[1]),
                                strip_ansi(calls[k].locals.output2[i]))

\* the first r characters of l end inside an escape sequence that is
\* complete in l: an ESC[ at or before r with no "m" up to r and one after
MidEscape(l, r) ==
    /\ \E a \in 1..r : /\ l[a] = "ESC" /\ a + 1 <= Len(l) /\ l[a + 1] = "["
                       /\ \A j \in (a + 1)..r : l[j] # "m"
    /\ \E j \in (r + 1)..Len(l) : l[j] = "m"

\* the panels a built line l may be shown as: a prefix of l that does not end
\* inside a complete escape sequence, with or without a closing reset, of at
\* most n visible characters
Cuts(l, n) ==
    {p \in UNION {{SubSeq(l, 1, r), SubSeq(l, 1, r) \o RESET} :
                     r \in {q \in 0..Len(l) : ~MidEscape(l, q)}} :
        Len(strip_ansi(p)) <= n}

Separators == { <<" ", " ", " ", "|", " ", " ", " ">>, Spaces(7) }

\* the two lines print_side_by_side_tokens builds for the k-th call
Built(k) ==
    side_by_side_from(calls[k].locals.output1, calls[k].locals.output2,
                      calls[k].col_widths, options.line_length, 1, <<>>, <<>>)

\* C17: in side-by-side mode a printed line is panel 1, a separator and
\* panel 2, where each panel has at most line_length visible characters and
\* is a prefix of its built line that does not end inside an escape sequence
\* complete in the built line (with at most a reset appended).
C17_PanelsFitLineLength ==
    (options.side_by_side /\ ~options.only_equal) =>
        \A k \in Returned :
            calls[k].printed # <<>> =>
                \E built \in {Built(k)} :
                \E p1 \in Cuts(built[1], options.line_length), sep \in Separators :
                    /\ Len(p1) + 7 <= Len(calls[k].printed[1])
                    /\ SubSeq(calls[k].printed[1], 1, Len(p1) + 7) = p1 \o sep
                    /\ \E p2 \in Cuts(built[2], options.line_length) :
                          calls[k].printed[1] = p1 \o sep \o p2

\* a printed line whose built lines are longer than line_length and have a
\* reset right after the last character that fits, which the panel keeps
C17_Witness ==
    /\ options.side_by_side /\ ~options.only_equal
    /\ options.columns_to_compare = {}
    /\ options.line_length = MinLineLength
    /\ \E k \in Returned :
          /\ calls[k].printed # <<>>
          /\ calls[k].line1 = LineC /\ calls[k].line2 = LineD
          /\ Len(strip_ansi(Built(k)[1])) > MinLineLength
          /\ \E r \in 5..(Len(Built(k)[1]) - 1) :
                /\ SubSeq(Built(k)[1], r - 3, r) = RESET
                /\ Len(strip_ansi(SubSeq(Built(k)[1], 1, r - 4))) = MinLineLength
                /\ SubSeq(calls[k].printed[1], 1, r + 7) =
                      SubSeq(Built(k)[1], 1, r) \o <<" ", " ", " ", "|", " ", " ", " ">>
          /\ Len(strip_ansi(calls[k].printed[1])) = 2 * MinLineLength + 7

\* C18: for every string s of visible characters and escape sequences and
\* every n >= 0, the stripped length of extract_visible_prefix(s, n) is the
\* smaller of n and the stripped length of s.
C18_WidthInvariant ==
    (pc = "returned" /\ arg.fn = "extract_visible_prefix") =>
        Len(strip_ansi(ret[1])) = Min(arg.n, Len(strip_ansi(arg.input)))

\* a highlighted string of two visible characters cut to one, with the
\* reset appended
C18_Witness ==
    /\ pc = "returned" /\ arg.fn = "extract_visible_prefix"
    /\ arg.input = RED \o <<"a", "a">> \o RESET
    /\ arg.n = 1
    /\ ret[1] = RED \o <<"a">> \o RESET

\* C19: in side-by-side mode the separator between the two panels of a
\* printed line is "   |   " exactly when the pair differs and seven spaces
\* exactly when it matches, whatever line_length cuts off the panels.
C19_BarIffDiffers ==
    (options.side_by_side /\ ~options.only_equal) =>
        \A k \in Returned :
            calls[k].printed # <<>> =>
                \E built \in {Built(k)} :
                    calls[k].printed[1] =
                        extract_visible_prefix(built[1], options.line_length)
                        \o (IF calls[k].res.first
                            THEN <<" ", " ", " ", "|", " ", " ", " ">>
                            ELSE Spaces(7))
                        \o extract_visible_prefix(built[2], options.line_length)

\* the mantissa of a token: what precedes its first "e" or "E"
Mantissa(s) ==
    IF \E i \in 1..Len(s) : s[i] \in {"e", "E"}
    THEN SubSeq(s, 1, (CHOOSE i \in 1..Len(s) :
                          /\ s[i] \in {"e", "E"}
                          /\ \A j \in 1..(i - 1) : s[j] \notin {"e", "E"}) - 1)
    ELSE s

\* number of leading characters two mantissas share: the 0-based index of
\* the first character at which they differ, the length of the shorter one
\* when there is none
DiffStart(a, b) ==
    CHOOSE d \in 0..Min(Len(a), Len(b)) :
        /\ \A i \in 1..d : a[i] = b[i]
        /\ d = Min(Len(a), Len(b)) \/ a[d + 1] # b[d + 1]

\* a mantissa with what follows its first d characters in one highlight,
\* unchanged when nothing follows them
Highlighted(a, d) ==
    IF d < Len(a)
    THEN SubSeq(a, 1, d) \o RED \o SubSeq(a, d + 1, Len(a)) \o RESET
    ELSE a

\* C20: colorize_different_digits leaves each token as its mantissa with the
\* characters from diff_start on in one highlight (none when the mantissa
\* has no character there), followed by its exponent, plain or highlighted;
\* diff_start is the index of the first character at which the two
\* mantissas differ, the length of the shorter one when one is a prefix of
\* the other.
C20_MantissaHighlight ==
    (pc = "returned" /\ arg.fn = "colorize_different_digits") =>
        LET d == DiffStart(Mantissa(arg.s1), Mantissa(arg.s2))
            Out(s) ==
               LET m == Highlighted(Mantissa(s), d)
                   e == SubSeq(s, Len(Mantissa(s)) + 1, Len(s))
               IN IF e = <<>> THEN {m} ELSE {m \o e, m \o RED \o e \o RESET}
        IN ret[1] \in Out(arg.s1) /\ ret[2] \in Out(arg.s2)

\* the documented example: 3.14159 against 3.14259 leaves 3.14 plain and
\* highlights 159 and 259
C20_Witness ==
    /\ pc = "returned" /\ arg.fn = "colorize_different_digits"
    /\ arg.s1 = Pi1 /\ arg.s2 = Pi2
    /\ ret[1] = <<"3", ".", "1", "4">> \o RED \o <<"1", "5", "9">> \o RESET
    /\ ret[2] = <<"3", ".", "1", "4">> \o RED \o <<"2", "5", "9">> \o RESET

\* the exponent of a token: its first "e" or "E" and what follows
Exponent(s) == SubSeq(s, Len(Mantissa(s)) + 1, Len(s))

\* the exponent as C21 has it on its side: absent when empty, in one
\* highlight when the mantissas differ or the exponent strings differ, plain
\* when mantissas and exponents are both identical
ExponentOut(s, other) ==
    IF Exponent(s) = <<>> THEN <<>>
    ELSE IF Mantissa(s) # Mantissa(other) \/ Exponent(s) # Exponent(other)
    THEN RED \o Exponent(s) \o RESET
    ELSE Exponent(s)

\* str ends with suffix, and what precedes it shows the text visible
EndsWith(str, suffix, visible) ==
    /\ Len(suffix) <= Len(str)
    /\ SubSeq(str, Len(str) - Len(suffix) + 1, Len(str)) = suffix
    /\ strip_ansi(SubSeq(str, 1, Len(str) - Len(suffix))) = visible

\* C21: colorize_different_digits ends each token with its exponent: in one
\* highlight whenever the mantissas differ in content or length, even if the
\* exponents are identical; with identical mantissas in one highlight when
\* the exponent strings differ and plain when they are equal; an empty
\* exponent adds nothing.
C21_ExponentHighlight ==
    (pc = "returned" /\ arg.fn = "colorize_different_digits") =>
        /\ EndsWith(ret[1], ExponentOut(arg.s1, arg.s2), Mantissa(arg.s1))
        /\ EndsWith(ret[2], ExponentOut(arg.s2, arg.s1), Mantissa(arg.s2))

\* 1e1 against 2e1: the mantissas differ, the identical exponents are
\* highlighted on both sides
C21_Witness ==
    /\ pc = "returned" /\ arg.fn = "colorize_different_digits"
    /\ arg.s1 = <<"1", "e", "1">> /\ arg.s2 = <<"2", "e", "1">>
    /\ ret[1] = RED \o <<"1">> \o RESET \o RED \o <<"e", "1">> \o RESET
    /\ ret[2] = RED \o <<"2">> \o RESET \o RED \o <<"e", "1">> \o RESET

\* what the process has written to the output: the lines of run(), then
\* those of main()
Written == out \o summary

\* C22: with quiet set, a process that ends after a run with no differing
\* line has written nothing at all, and one that ends after a run with
\* differing lines has written the brief summary and nothing else (no
\* unified-diff block, no side-by-side line).
C22_QuietSuppressesDetail ==
    (options.quiet /\ pc = "exited" /\ exit_code = <<0>>) =>
        Written = IF result.n_different_lines = 0 THEN <<>> ELSE DifferSummary

\* C23: in quiet mode the exit code of a process that compared the files is
\* 0 when no line differs and non-zero when at least one line differs.
C23_QuietExitCode ==
    (options.quiet /\ pc = "exited" /\ error = "") =>
        (exit_code = <<0>>) <=> (result.n_different_lines = 0)

\* run() has read a line or left its first loop
RunBegun == pos1 > 0 \/ pos2 > 0 \/ pc # "reading"

\* C24: whatever other NumericDiff objects were constructed before run() is
\* called, run() skips a line as a comment exactly when it is a comment under
\* the comment_prefix of the options this object was constructed with.
C24_PrefixNotCoupled ==
    RunBegun =>
        \A f \in {file1, file2} : \A i \in 1..Len(f) :
            skipped(f[i]) <=>
                /\ options.comment_prefix # <<>>
                /\ line_is_comment(f[i], options.comment_prefix)

\* C25: a line pair differs exactly when at least one column that is not
\* filtered out differs, its error value is the greatest percentage error
\* among its differing columns, and the outcome is (false, 0) when no column
\* differs.
C25_LineOutcome ==
    \A k \in Returned :
        \E D \in {RefDiffs(calls[k].tokens1, calls[k].tokens2)} :
            /\ calls[k].res.first <=> D # {}
            /\ calls[k].res.second = PctMax(D)
            /\ D = {} => calls[k].res = [first |-> FALSE, second |-> PctZero]

\* a pair with two differing columns of different errors, the second the
\* greater
C25_Witness ==
    \E k \in Returned :
        /\ calls[k].line1 = LineA /\ calls[k].line2 = LineB
        /\ options.columns_to_compare = {}
        /\ Cardinality(RefDiffs(calls[k].tokens1, calls[k].tokens2)) = 2
        /\ calls[k].res = [first |-> TRUE, second |-> big]

\* positions of the lines of a file that are not comments under the comment
\* prefix of the options
DataPositions(file) ==
    {i \in 1..Len(file) : ~( /\ options.comment_prefix # <<>>
                             /\ line_is_comment(file[i], options.comment_prefix) )}

\* position of the k-th non-comment line of a file, 0 when it has fewer
KthPosition(file, k) ==
    IF k > Cardinality(DataPositions(file)) THEN 0
    ELSE CHOOSE i \in DataPositions(file) :
            Cardinality({j \in DataPositions(file) : j < i}) = k - 1

\* C26: the k-th comparison, for k = 1, 2, ... in this order, is of the k-th
\* non-comment line of file 1 with the k-th non-comment line of file 2 (the
\* empty line for a file that has fewer); no line is read twice (the read
\* positions never go back), no non-comment line that was read is left
\* uncompared, no line is compared twice, and a run that returns has read
\* both files to the end.
C26_PairingOrder ==
    /\ [](\A k \in 1..Len(calls) :
             /\ calls[k].idx1 = KthPosition(file1, k)
             /\ calls[k].idx2 = KthPosition(file2, k)
             /\ calls[k].line1 = LineAt(file1, IF calls[k].idx1 = 0
                                               THEN Len(file1) + 1
                                               ELSE calls[k].idx1)
             /\ calls[k].line2 = LineAt(file2, IF calls[k].idx2 = 0
                                               THEN Len(file2) + 1
                                               ELSE calls[k].idx2))
    /\ [](/\ \A i \in DataPositions(file1) :
                i <= pos1 => \E k \in 1..Len(calls) : calls[k].idx1 = i
          /\ \A i \in DataPositions(file2) :
                i <= pos2 => \E k \in 1..Len(calls) : calls[k].idx2 = i
          /\ \A k, l \in 1..Len(calls) :
                k < l => /\ calls[k].idx1 = 0 \/ calls[k].idx1 < calls[l].idx1
                                              \/ calls[l].idx1 = 0
                         /\ calls[k].idx2 = 0 \/ calls[k].idx2 < calls[l].idx2
                                              \/ calls[l].idx2 = 0)
    /\ [](pc = "done" => pos1 = Len(file1) /\ pos2 = Len(file2))
    /\ [][/\ pos1' >= pos1 /\ pos2' >= pos2
          /\ Len(calls') \in {Len(calls), Len(calls) + 1}
          /\ SubSeq(calls', 1, Len(calls)) = calls]_vars

\* a finished run that skipped the leading comment line of each file and
\* compared their second lines
C26_Witness ==
    /\ pc = "done"
    /\ options.comment_prefix # <<>>
    /\ Len(file1) = 2 /\ Len(file2) = 2
    /\ DataPositions(file1) = {2} /\ DataPositions(file2) = {2}
    /\ Len(calls) = 1
    /\ calls[1].idx1 = 2 /\ calls[1].idx2 = 2
    /\ calls[1].line1 # <<>>

\* READING, DRAINING, DONE (or the fatal error) as numbers
Phase(p) ==
    IF p = "reading" THEN 0
    ELSE IF p \in {"drain1", "drain2"} THEN 1
    ELSE 2

\* C27: for every pair of finite files run() terminates, returning the
\* Result or raising a fatal error; its phase never moves backwards
\* (READING, DRAINING, DONE); and an iteration in which both streams become
\* exhausted invokes no comparison and leads to a normal return.
C27_Terminates ==
    /\ <>(pc \in {"done", "fatal"})
    /\ [][Phase(pc') >= Phase(pc)]_vars
    /\ [][(file1_has_line /\ file2_has_line
           /\ ~file1_has_line' /\ ~file2_has_line') =>
               (calls' = calls /\ pc' = "drain1")]_vars
    /\ (~file1_has_line /\ ~file2_has_line) ~> (pc = "done")

\* a run that returned after comparing two pairs and finding both streams
\* exhausted in its third iteration
C27_Witness ==
    /\ pc = "done"
    /\ ~file1_has_line /\ ~file2_has_line
    /\ Len(file1) = MaxLines /\ Len(file2) = MaxLines
    /\ Len(calls) = MaxLines

RECURSIVE OwnWidthPanel(_, _, _, _)
\* the panel of one side built from its output tokens with every column
\* padded to the width of its own source column: cols[j].col is the source
\* column of the j-th output token, width[i] the greater length of the two
\* source tokens of column i
OwnWidthPanel(output, cols, width, j) ==
    IF j > Len(output) THEN <<>>
    ELSE output[j]
         \o Spaces(width[cols[j].col] - Len(strip_ansi(output[j])))
         \o (IF j < Len(output) THEN <<" ">> ELSE <<>>)
         \o OwnWidthPanel(output, cols, width, j + 1)

\* the line side-by-side mode prints when every column has its own width
OwnWidthLine(k) ==
    LET width == [i \in 1..Len(calls[k].tokens1) |->
                     Max(Len(calls[k].tokens1[i]), Len(calls[k].tokens2[i]))]
        l1 == OwnWidthPanel(calls[k].locals.output1, calls[k].locals.cols, width, 1)
        l2 == OwnWidthPanel(calls[k].locals.output2, calls[k].locals.cols, width, 1)
    IN extract_visible_prefix(l1, options.line_length)
       \o (IF string_is_red(l1) \/ string_is_red(l2)
           THEN <<" ", " ", " ", "|", " ", " ", " ">> ELSE Spaces(7))
       \o extract_visible_prefix(l2, options.line_length)

\* C28: in side-by-side mode every rendered column is padded to the width of
\* its own source column, the greater of the lengths of that column's two
\* source tokens, also when columns_to_compare removes columns before it.
C28_OwnColumnWidth ==
    (options.side_by_side /\ ~options.only_equal) =>
        \A k \in Returned :
            calls[k].printed # <<>> => calls[k].printed[1] = OwnWidthLine(k)

\* every start-highlight sequence of str is followed later by a reset
Closed(str) ==
    \A i \in 1..(Len(str) - Len(RED) + 1) :
        SubSeq(str, i, i + Len(RED) - 1) = RED =>
            \E j \in (i + 1)..(Len(str) - Len(RESET) + 1) :
                SubSeq(str, j, j + Len(RESET) - 1) = RESET

\* C29: in every line written, unified or side-by-side, every start-highlight
\* sequence is followed later in the same panel by a reset; ensure_ansi_reset
\* appends a reset exactly when the last start-highlight has no reset after
\* it, and applying it twice gives what applying it once gives.
C29_NoColourBleeding ==
    \A k \in Returned :
        IF options.side_by_side
        THEN calls[k].printed # <<>> =>
                \E built \in {Built(k)} :
                \E p1 \in {extract_visible_prefix(built[1], options.line_length)},
                   p2 \in {extract_visible_prefix(built[2], options.line_length)} :
                    /\ \E sep \in Separators :
                          calls[k].printed[1] = p1 \o sep \o p2
                    /\ Closed(p1) /\ Closed(p2)
        ELSE \A i \in 1..Len(calls[k].printed) :
                \E line \in {calls[k].printed[i]} :
                    /\ Closed(line)
                    /\ ensure_ansi_reset(line) = line
                    /\ ensure_ansi_reset(ensure_ansi_reset(line))
                          = ensure_ansi_reset(line)

\* C30: for every line pair rendered side by side the two built panels have
\* the same number of visible characters, and the two printed panels have
\* the same number of visible characters too, the smaller of that number and
\* line_length, so that the separator starts at the same visible column on
\* both sides.
C30_PanelsAligned ==
    (options.side_by_side /\ ~options.only_equal) =>
        \A k \in Returned :
            calls[k].printed # <<>> =>
                \E built \in {Built(k)} :
                \E p1 \in {extract_visible_prefix(built[1], options.line_length)},
                   p2 \in {extract_visible_prefix(built[2], options.line_length)} :
                    /\ \E sep \in Separators :
                          calls[k].printed[1] = p1 \o sep \o p2
                    /\ Len(strip_ansi(built[1])) = Len(strip_ansi(built[2]))
                    /\ Len(strip_ansi(p1)) =
                          Min(Len(strip_ansi(built[1])), options.line_length)
                    /\ Len(strip_ansi(p2)) = Len(strip_ansi(p1))

=============================================================================
